---- MODULE Spec2Model ----
(***************************************************************************)
(* pi-web: the Connection Gateway (packages/backend/src/server.ts), the    *)
(* Process Session Bridge (packages/backend/src/session.ts) and the RPC    *)
(* Client (packages/frontend/src/rpc/client.ts) as state machines.         *)
(*                                                                         *)
(* Node runs every handler to completion, so one handler (or the part of   *)
(* an async handler between two awaits) is one action.                     *)
(***************************************************************************)
EXTENDS Integers, Sequences, FiniteSets, TLC

\* ------------------------------------------------------------------ bounds
MaxChannels == 1    \* channels the listener accepts
MaxBridges == 2     \* PiSession objects ever constructed
MaxSockets == 2     \* WebSocket objects one RpcClient ever constructs
MaxCommands == 3    \* commands one RpcClient ever issues
MaxStream == 5      \* characters a worker writes to its output
MaxProbes == 2      \* get_session_tree requests one channel ever sends
MaxLog == 3         \* lines of a session log
MaxSubs == 3         \* subscribeToEvents calls on the store
MaxBuilds == 2      \* getSessionTree calls on one log

Channels == 1..MaxChannels

VARIABLES
    \* ---- Connection Gateway (server.ts)
    clients,      \* the keys of the `clients` map
    chan,         \* the ClientConnection objects: ws.readyState, session, cwd
    bridges,      \* every PiSession constructed so far, in construction order
    listener,     \* the WebSocketServer: listening, closing, closed
    shutdown,     \* the promise ServerInstance.close returns: idle, awaiting, done
    atShutdown,   \* history: the channels registered when close() was called
    sent,         \* what the latest handler wrote to a channel's socket
    wrote,        \* what the latest handler wrote to a worker's input
    reclosed,     \* the PiSessions the latest handler called close() on
                  \* although they were closed already
    handled,      \* the inbound message the latest handler was called with
    call          \* the PiSession.send call made from outside the gateway in
                  \* the latest step, with the error it raised

gwVars == <<clients, chan, bridges, listener, shutdown, atShutdown, sent, wrote, reclosed,
            handled, call>>

VARIABLES
    \* ---- RPC Client (client.ts)
    cSock,        \* readyState of every WebSocket the client constructed
    cWs,          \* this.ws: an index into cSock, or NoSocket
    cStatus,      \* this.status
    cReconnect,   \* this.reconnectTimer is set
    cSession,     \* this.sessionConnected
    cCounter,     \* this.commandIdCounter
    cPending,     \* the keys of this.pendingCommands
    cTimers,      \* the commands whose timeout timer is pending
    cOutcome,     \* history: per command, how its promise was settled, in order
    cEvent,       \* what the latest handler passed to options.onEvent
    cConn,        \* the promise of connectSession: idle (not called), waiting,
                  \* resolved, rejected
    cListener,    \* the socket connectSession's messageHandler listens on, or NoSocket
    cConnTimer,   \* connectSession's 10000 ms timer is pending
    cType,        \* per command, the type it was issued with ("none": not issued)
    cError        \* per command, the type its timeout error names ("none": no
                  \* timeout error)

hsVars == <<cConn, cListener, cConnTimer>>
cmVars == <<cType, cError>>

clVars == <<cSock, cWs, cStatus, cReconnect, cSession, cCounter, cPending, cTimers,
            cOutcome, cEvent, hsVars, cmVars>>

VARIABLES
    \* ---- PiSession output framing (session.ts)
    fInput,       \* everything the worker writes to its output
    fPos,         \* how much of it has arrived
    fBuffer,      \* this.buffer
    fDelivered,   \* what options.onMessage has been called with, in order
    fChunks,      \* history: 'data' events so far
    fState        \* "running"; "closed": close() was called; "exited": the
                  \* worker's 'close' event was handled

frVars == <<fInput, fPos, fBuffer, fDelivered, fChunks, fState>>

VARIABLES
    \* ---- get_session_tree on one connected channel (server.ts 399-465)
    pWorker,      \* the channel's worker: running, exited, closed
    pSession,     \* client.session is not null
    pSink,        \* session.options.onMessage: OriginalSink, or the
                  \* interceptHandler of request i
    pCount,       \* get_session_tree requests received so far
    pOrig,        \* per request, the originalOnMessage its closure captured
    pResolved,    \* the requests whose `resolved` flag is set
    pTimer,       \* the requests whose 5000 ms timer is pending
    pInbox,       \* the get_state requests the worker has not answered yet
    pAnswer,      \* history: per request, the responses sent for it, in order
    pCrashed,     \* an exception escaped a timer callback: the process is gone
    pEmit,        \* the message the worker emitted in the latest step
    pSent         \* what the latest step wrote to the channel's socket

prVars == <<pWorker, pSession, pSink, pCount, pOrig, pResolved, pTimer, pInbox, pAnswer,
            pCrashed, pEmit, pSent>>

VARIABLES
    \* ---- getSessionTree on one session log (session-manager)
    tLog,         \* the parsed lines of the log file, in file order
    tHeap,        \* every SessionTreeNode object allocated so far; a node's
                  \* identity is its index
    tResults      \* history: what each getSessionTree call returned, in order

trVars == <<tLog, tHeap, tResults>>

VARIABLES
    \* ---- the event subscribers of the frontend store
    sListeners,   \* eventListeners: the functions in the Set, in insertion order
    sSubs,        \* history: the subscribeToEvents calls, each with its listener
                  \* and whether the unsubscribe function it returned was called
    sSession,     \* session: "null", or whether it is streaming
    sGot,         \* the listeners called in this step, in order
    sEvent        \* the event passed to handleEvent in this step

stVars == <<sListeners, sSubs, sSession, sGot, sEvent>>

vars == <<gwVars, clVars, frVars, prVars, trVars, stVars>>

NoSession == 0
NullCwd == <<>>
\* process.env.HOME, and options.defaultCwd (here the home directory too)
Home == <<"/", "h">>
DefaultCwd == <<"/", "h">>

\* the cwd field a connect message can carry: absent, or the home directory
ConnectCwds == {<<>>, <<"~">>}

\* the id field a command can carry ("none": absent)
CommandIds == {"none", "i1"}

\* server.ts 313-316: message.cwd || defaultCwd, then "~" replaced by HOME
ExpandCwd(cwd) ==
    LET c == IF cwd = <<>> THEN DefaultCwd ELSE cwd
    IN  IF c[1] = "~" THEN Home \o Tail(c) ELSE c

\* -------------------------------------------------- PiSession (session.ts)
\* A freshly constructed PiSession on which spawn() has run up to its await.
\* launch = "fail": the worker could not be started (ENOENT and the like):
\* Node sets a negative exitCode and will emit 'error' and then 'close'.
NewSession(c, launch) ==
    [ owner       |-> c,
      alive       |-> launch = "ok",       \* the child process exists
      exitCode    |-> IF launch = "ok" THEN "null" ELSE "ENOENT",
      errPending  |-> launch # "ok",       \* 'error' event not yet emitted
      closeEmitted|-> FALSE,               \* 'close' event emitted
      closed      |-> FALSE,
      killed      |-> FALSE,               \* ChildProcess.killed
      stdinEnded  |-> FALSE,
      timerArmed  |-> FALSE,               \* close()'s kill timer is pending
      sigterm     |-> 0,                   \* SIGTERMs delivered to the worker
      sigkill     |-> 0,                   \* SIGKILLs delivered to the worker
      awaiting    |-> TRUE ]               \* the connect handler is at `await session.spawn()`

\* ChildProcess.kill(sig): the signal is delivered, and `killed` set, only
\* while the child exists.
Kill(s, sig) ==
    IF s.alive
    THEN [s EXCEPT !.killed = TRUE,
                   !.sigterm = @ + (IF sig = "SIGTERM" THEN 1 ELSE 0),
                   !.sigkill = @ + (IF sig = "SIGKILL" THEN 1 ELSE 0)]
    ELSE s

\* close() without its idempotency guard
PiSessionCloseNoGuard(s) ==
    LET s1 == [s EXCEPT !.closed = TRUE, !.stdinEnded = TRUE, !.timerArmed = TRUE]
    IN  IF ~s1.killed THEN Kill(s1, "SIGTERM") ELSE s1

\* PiSession.close
PiSessionClose(s) ==
    IF s.closed
    THEN s
    ELSE LET s1 == [s EXCEPT !.closed = TRUE, !.stdinEnded = TRUE, !.timerArmed = TRUE]
         IN  IF ~s1.killed THEN Kill(s1, "SIGTERM") ELSE s1

\* A PiSession whose worker has closed, whose kill timer is no longer pending
\* and whose connect handler has returned can take no further step and
\* nothing reads its fields but `closed`: it is kept as a closed husk.
Retired(s) == ~s.alive /\ s.closeEmitted /\ ~s.timerArmed /\ ~s.awaiting
Retire(s) ==
    IF Retired(s)
    THEN [s EXCEPT !.exitCode = "gone", !.killed = FALSE, !.stdinEnded = FALSE,
                   !.sigterm = 0, !.sigkill = 0]
    ELSE s

\* PiSession.isActive
IsActive(s) == ~s.closed /\ s.exitCode = "null"

\* the guard without the isActive() call: any referenced PiSession counts
SessionActiveRefOnly(c) == chan[c].session # NoSession

\* client.session?.isActive()
SessionActive(c) ==
    chan[c].session # NoSession /\ IsActive(bridges[chan[c].session])

\* process.stdin.writable
StdinWritable(s) == s.alive /\ ~s.stdinEnded

\* WsServerMessage values, as far as the gateway itself builds them
ErrorMsg(text) == [type |-> "error", text |-> text, id |-> "none", success |-> FALSE]
ConnectedMsg == [type |-> "connected", text |-> "sessionId", id |-> "none", success |-> TRUE]
DisconnectedMsg(code) == [type |-> "disconnected", text |-> code, id |-> "none", success |-> TRUE]
ResponseMsg(cmd, ok, id) == [type |-> "response", text |-> cmd, id |-> id, success |-> ok]

AlreadyConnected == ErrorMsg("Already connected to a session")
NotConnected == ErrorMsg("Not connected to a session. Send a 'connect' message first.")
NotRunning == ErrorMsg("Pi process is not running")
SpawnFailed == ErrorMsg("Failed to spawn pi")
SpawnError == ErrorMsg("spawn pi ENOENT")
SyntaxError == ErrorMsg("Unexpected token in JSON")

\* inbound messages, as far as the gateway tells them apart
NoText == <<>>
\* a PiSession on which spawn() was never called: this.process is null
Unstarted == 0
NoError == "none"
NoCall == [on |-> Unstarted, text |-> NoText, threw |-> NoError]
\* process.stdin.write(message + "\n"): the text and the newlines after it
SendLine(b, text) == [to |-> b, msg |-> text, eol |-> 1]
NoMessage == [type |-> "none", ch |-> 0, text |-> NoText]
Inbound(type, c) == [type |-> type, ch |-> c, text |-> NoText]

\* sendToClient: written only while the socket is OPEN
SendToClient(c, msg) ==
    IF chan[c].ws = "open" THEN <<[to |-> c, msg |-> msg]>> ELSE <<>>

\* ------------------------------------------------------ gateway actions
GwInit ==
    /\ clients = {}
    /\ chan = [c \in Channels |-> [ws |-> "none", session |-> NoSession, cwd |-> NullCwd]]
    /\ bridges = <<>>
    /\ listener = "listening"
    /\ shutdown = "idle"
    /\ atShutdown = {}
    /\ sent = <<>>
    /\ wrote = <<>>
    /\ reclosed = {}
    /\ handled = NoMessage
    /\ call = NoCall

\* wss.on("connection"): channel ids are fresh, so channels are taken in order
Connection(c) ==
    /\ listener = "listening"
    /\ chan[c].ws = "none"
    /\ \A d \in Channels : d < c => chan[d].ws # "none"
    /\ chan' = [chan EXCEPT ![c].ws = "open"]
    /\ clients' = clients \cup {c}
    /\ sent' = <<>> /\ wrote' = <<>>
    /\ UNCHANGED <<bridges, listener, shutdown, atShutdown>>
    /\ reclosed' = {}
    /\ handled' = NoMessage
    /\ call' = NoCall
    /\ UNCHANGED <<clVars, frVars, prVars, trVars, stVars>>

\* the connect handler without its already-connected guard
MsgConnectNoGuard(c, cwd, launch) ==
    /\ chan[c].ws = "open"
    /\ Len(bridges) < MaxBridges
    /\ chan' = [chan EXCEPT ![c].cwd = ExpandCwd(cwd)]
    /\ bridges' = Append(bridges, NewSession(c, launch))
    /\ sent' = <<>>
    /\ wrote' = <<>>
    /\ reclosed' = {}
    /\ UNCHANGED <<clients, listener, shutdown, atShutdown>>
    /\ handled' = Inbound("connect", c)
    /\ call' = NoCall
    /\ UNCHANGED <<clVars, frVars, prVars, trVars, stVars>>

\* ws.on("message") with a connect message, up to `await session.spawn()`
MsgConnect(c, cwd, launch) ==
    /\ chan[c].ws = "open"
    /\ SessionActive(c) \/ Len(bridges) < MaxBridges
    /\ IF SessionActive(c)
       THEN /\ sent' = SendToClient(c, AlreadyConnected)
            /\ UNCHANGED <<chan, bridges>>
       ELSE /\ chan' = [chan EXCEPT ![c].cwd = ExpandCwd(cwd)]
            /\ bridges' = Append(bridges, NewSession(c, launch))
            /\ sent' = <<>>
    /\ wrote' = <<>>
    /\ UNCHANGED <<clients, listener, shutdown, atShutdown>>
    /\ reclosed' = {}
    /\ handled' = Inbound("connect", c)
    /\ call' = NoCall
    /\ UNCHANGED <<clVars, frVars, prVars, trVars, stVars>>

\* the rest of the connect handler, once spawn()'s 100 ms timer has fired.
\* A failed launch has emitted its events long before (next tick).
SpawnResume(b) ==
    LET s == bridges[b] IN
    /\ s.awaiting
    /\ ~s.errPending
    /\ s.exitCode = "ENOENT" => s.closeEmitted
    /\ IF s.exitCode # "null"
       THEN /\ bridges' = [bridges EXCEPT ![b] = Retire([s EXCEPT !.awaiting = FALSE])]
            /\ sent' = SendToClient(s.owner, SpawnFailed)
            /\ UNCHANGED chan
       ELSE /\ bridges' = [bridges EXCEPT ![b] = Retire([s EXCEPT !.awaiting = FALSE])]
            /\ chan' = [chan EXCEPT ![s.owner].session = b]
            /\ sent' = SendToClient(s.owner, ConnectedMsg)
    /\ wrote' = <<>>
    /\ UNCHANGED <<clients, listener, shutdown, atShutdown>>
    /\ reclosed' = {}
    /\ handled' = NoMessage
    /\ call' = NoCall
    /\ UNCHANGED <<clVars, frVars, prVars, trVars, stVars>>

\* the commands the gateway answers itself, the one it answers after asking
\* the worker for its state, and one the worker answers
LocalCommands == {"list_sessions", "delete_session"}
CommandTypes == LocalCommands \cup {"get_session_tree", "prompt"}

\* The text of a message: the members of a JSON object in the order they
\* are written, a key possibly written twice, with or without white space
\* between the tokens.
MessageText(ws, members) == [ws |-> ws, members |-> members]

InboundTexts ==
    {MessageText(w, <<<<"type", t>>, <<"id", "i1">>>>) : w \in BOOLEAN, t \in CommandTypes}
    \cup {MessageText(FALSE, <<<<"type", t>>>>) : t \in CommandTypes}
    \cup {MessageText(FALSE, <<<<"id", "i1">>, <<"type", "prompt">>>>),
          MessageText(FALSE, <<<<"type", "list_sessions">>, <<"type", "prompt">>>>),
          MessageText(FALSE, <<<<"type", "prompt">>, <<"type", "list_sessions">>>>)}

\* obj[k] = v on an object held as its members in property order
SetMember(obj, k, v) ==
    IF \E i \in DOMAIN obj : obj[i][1] = k
    THEN [i \in DOMAIN obj |-> IF obj[i][1] = k THEN <<k, v>> ELSE obj[i]]
    ELSE Append(obj, <<k, v>>)

RECURSIVE ParseMembers(_, _)
ParseMembers(members, obj) ==
    IF members = <<>> THEN obj
    ELSE ParseMembers(Tail(members), SetMember(obj, Head(members)[1], Head(members)[2]))

\* JSON.parse(data.toString()) of an object
MessageParse(text) == ParseMembers(text.members, <<>>)

\* a serialiser that writes the members in reverse and drops the last
MessageStringifyLossy(obj) ==
    MessageText(FALSE, [i \in 1..(Len(obj) - 1) |-> obj[Len(obj) - i + 1]])

\* JSON.stringify(message)
MessageStringify(obj) == MessageText(FALSE, obj)

\* message.type, message.id ("none": undefined)
Member(obj, k) ==
    IF \E i \in DOMAIN obj : obj[i][1] = k
    THEN obj[CHOOSE i \in DOMAIN obj : obj[i][1] = k][2]
    ELSE "none"

\* JSON.stringify({ type: "get_state", id: stateId })
StateRequest == MessageText(FALSE, <<<<"type", "get_state">>, <<"id", "uuid">>>>)

\* ws.on("message") with any message but connect.
\* fsOk: whether the log store call of a local command succeeds.
\* Of get_session_tree this is the handler up to its first await; what
\* follows is PrWorkerReply, PrTimeout and PrWorkerClose.
MsgCommand(c, text, fsOk) ==
    LET b == chan[c].session
        message == MessageParse(text)
        type == Member(message, "type")
        id == Member(message, "id")
    IN
    /\ chan[c].ws = "open"
    /\ IF ~SessionActive(c)
       THEN /\ sent' = SendToClient(c, NotConnected)
            /\ wrote' = <<>>
       ELSE IF type \in LocalCommands
       THEN /\ sent' = SendToClient(c, ResponseMsg(type, fsOk, id))
            /\ wrote' = <<>>
       ELSE IF type = "get_session_tree"
       THEN IF StdinWritable(bridges[b])
            THEN /\ wrote' = <<SendLine(b, StateRequest)>>
                 /\ sent' = <<>>
            ELSE \* send() throws in the promise executor; the handler's catch reports
                 /\ sent' = SendToClient(c, ResponseMsg(type, FALSE, id))
                 /\ wrote' = <<>>
       ELSE IF StdinWritable(bridges[b])
       THEN /\ wrote' = <<SendLine(b, MessageStringify(message))>>
            /\ sent' = <<>>
       ELSE \* send() throws; ws.on("message") catches and reports
            /\ sent' = SendToClient(c, NotRunning)
            /\ wrote' = <<>>
    /\ UNCHANGED <<clients, chan, bridges, listener, shutdown, atShutdown>>
    /\ reclosed' = {}
    /\ handled' = [type |-> type, ch |-> c, text |-> text]
    /\ call' = NoCall
    /\ UNCHANGED <<clVars, frVars, prVars, trVars, stVars>>

\* a message handler whose catch drops the channel's Bridge reference
MsgUnparsableDropsRef(c) ==
    /\ chan[c].ws = "open"
    /\ sent' = SendToClient(c, SyntaxError)
    /\ wrote' = <<>>
    /\ chan' = [chan EXCEPT ![c].session = NoSession]
    /\ UNCHANGED <<clients, bridges, listener, shutdown, atShutdown>>
    /\ reclosed' = {}
    /\ handled' = Inbound("unparsable", c)
    /\ call' = NoCall
    /\ UNCHANGED <<clVars, frVars, prVars, trVars, stVars>>

\* ws.on("message") with data that is not JSON: JSON.parse throws before
\* handleClientMessage is called, and the catch reports the error
MsgUnparsable(c) ==
    /\ chan[c].ws = "open"
    /\ sent' = SendToClient(c, SyntaxError)
    /\ wrote' = <<>>
    /\ UNCHANGED <<clients, chan, bridges, listener, shutdown, atShutdown>>
    /\ reclosed' = {}
    /\ handled' = Inbound("unparsable", c)
    /\ call' = NoCall
    /\ UNCHANGED <<clVars, frVars, prVars, trVars, stVars>>

\* the text send is called with from outside the gateway
SendTexts == {MessageText(FALSE, <<<<"type", "abort">>, <<"id", "i1">>>>)}

\* this.process?.stdin?.writable
SendWritable(b) == b # Unstarted /\ StdinWritable(bridges[b])

\* a send that writes without looking at the worker's input
PiSessionSendNoCheck(b, text) ==
    /\ wrote' = <<SendLine(b, text)>>
    /\ call' = [on |-> b, text |-> text, threw |-> NoError]
    /\ sent' = <<>>
    /\ reclosed' = {}
    /\ handled' = NoMessage
    /\ UNCHANGED <<clients, chan, bridges, listener, shutdown, atShutdown>>
    /\ UNCHANGED <<clVars, frVars, prVars, trVars, stVars>>

\* PiSession.send(text), called by whoever holds the PiSession
PiSessionSend(b, text) ==
    /\ IF SendWritable(b)
       THEN /\ wrote' = <<SendLine(b, text)>>
            /\ call' = [on |-> b, text |-> text, threw |-> NoError]
       ELSE /\ wrote' = <<>>
            /\ call' = [on |-> b, text |-> text, threw |-> "Pi process is not running"]
    /\ sent' = <<>>
    /\ reclosed' = {}
    /\ handled' = NoMessage
    /\ UNCHANGED <<clients, chan, bridges, listener, shutdown, atShutdown>>
    /\ UNCHANGED <<clVars, frVars, prVars, trVars, stVars>>

\* the worker ends with an exit status, of its own accord or after its input
\* closed or a SIGTERM it handles
WorkerExit(b) ==
    /\ bridges[b].alive
    /\ bridges' = [bridges EXCEPT ![b].alive = FALSE, ![b].exitCode = "1"]
    /\ sent' = <<>> /\ wrote' = <<>>
    /\ UNCHANGED <<clients, chan, listener, shutdown, atShutdown>>
    /\ reclosed' = {}
    /\ handled' = NoMessage
    /\ call' = NoCall
    /\ UNCHANGED <<clVars, frVars, prVars, trVars, stVars>>

\* the worker is ended by a signal close() sent it: exitCode stays null,
\* signalCode is set
WorkerKilled(b) ==
    /\ bridges[b].alive
    /\ bridges[b].killed
    /\ bridges' = [bridges EXCEPT ![b].alive = FALSE]
    /\ sent' = <<>> /\ wrote' = <<>>
    /\ UNCHANGED <<clients, chan, listener, shutdown, atShutdown>>
    /\ reclosed' = {}
    /\ handled' = NoMessage
    /\ call' = NoCall
    /\ UNCHANGED <<clVars, frVars, prVars, trVars, stVars>>

\* process.on("error"): onError relays the error
WorkerError(b) ==
    /\ bridges[b].errPending
    /\ bridges' = [bridges EXCEPT ![b].errPending = FALSE]
    /\ sent' = SendToClient(bridges[b].owner, SpawnError)
    /\ wrote' = <<>>
    /\ UNCHANGED <<clients, chan, listener, shutdown, atShutdown>>
    /\ reclosed' = {}
    /\ handled' = NoMessage
    /\ call' = NoCall
    /\ UNCHANGED <<clVars, frVars, prVars, trVars, stVars>>

\* a 'close' listener that calls onClose whether or not close() was called
WorkerCloseUnguarded(b) ==
    LET s == bridges[b]
    IN
    /\ ~s.alive /\ ~s.errPending /\ ~s.closeEmitted
    /\ bridges' = [bridges EXCEPT ![b] = Retire([s EXCEPT !.closeEmitted = TRUE,
                                                           !.closed = TRUE,
                                                           !.timerArmed = FALSE])]
    /\ sent' = SendToClient(s.owner, DisconnectedMsg(s.exitCode))
    /\ chan' = [chan EXCEPT ![s.owner].session = NoSession]
    /\ wrote' = <<>>
    /\ UNCHANGED <<clients, listener, shutdown, atShutdown>>
    /\ reclosed' = {}
    /\ handled' = NoMessage
    /\ call' = NoCall
    /\ UNCHANGED <<clVars, frVars, prVars, trVars, stVars>>

\* the 'close' event with an onClose that leaves client.session as it is
WorkerCloseKeepsRef(b) ==
    LET s == bridges[b]
    IN
    /\ ~s.alive /\ ~s.errPending /\ ~s.closeEmitted
    /\ bridges' = [bridges EXCEPT ![b] = Retire([s EXCEPT !.closeEmitted = TRUE,
                                                           !.closed = TRUE,
                                                           !.timerArmed = FALSE])]
    /\ sent' = IF ~s.closed THEN SendToClient(s.owner, DisconnectedMsg(s.exitCode)) ELSE <<>>
    /\ wrote' = <<>>
    /\ UNCHANGED <<clients, chan, listener, shutdown, atShutdown>>
    /\ reclosed' = {}
    /\ handled' = NoMessage
    /\ call' = NoCall
    /\ UNCHANGED <<clVars, frVars, prVars, trVars, stVars>>

\* the worker's 'close' event: the listener spawn() registered (closed flag,
\* onClose), then the one close() registered (clearTimeout)
WorkerClose(b) ==
    LET s == bridges[b]
    IN
    /\ ~s.alive /\ ~s.errPending /\ ~s.closeEmitted
    /\ bridges' = [bridges EXCEPT ![b] = Retire([s EXCEPT !.closeEmitted = TRUE,
                                                           !.closed = TRUE,
                                                           !.timerArmed = FALSE])]
    /\ IF ~s.closed
       THEN /\ sent' = SendToClient(s.owner, DisconnectedMsg(s.exitCode))
            /\ chan' = [chan EXCEPT ![s.owner].session = NoSession]
       ELSE /\ sent' = <<>>
            /\ UNCHANGED chan
    /\ wrote' = <<>>
    /\ UNCHANGED <<clients, listener, shutdown, atShutdown>>
    /\ reclosed' = {}
    /\ handled' = NoMessage
    /\ call' = NoCall
    /\ UNCHANGED <<clVars, frVars, prVars, trVars, stVars>>

\* the 1000 ms timer close() armed
KillTimerFire(b) ==
    LET s == [bridges[b] EXCEPT !.timerArmed = FALSE] IN
    /\ bridges[b].timerArmed
    /\ bridges' = [bridges EXCEPT ![b] = Retire(IF ~s.killed THEN Kill(s, "SIGKILL") ELSE s)]
    /\ sent' = <<>> /\ wrote' = <<>>
    /\ UNCHANGED <<clients, chan, listener, shutdown, atShutdown>>
    /\ reclosed' = {}
    /\ handled' = NoMessage
    /\ call' = NoCall
    /\ UNCHANGED <<clVars, frVars, prVars, trVars, stVars>>

\* ws.on("close"): the remote side went away, or the close handshake ended
WsClose(c) ==
    /\ chan[c].ws \in {"open", "closing"}
    /\ chan' = [chan EXCEPT ![c].ws = "closed"]
    /\ bridges' = IF chan[c].session # NoSession
                  THEN [bridges EXCEPT ![chan[c].session] = PiSessionClose(@)]
                  ELSE bridges
    /\ clients' = clients \ {c}
    /\ reclosed' = {b \in DOMAIN bridges : chan[c].session = b /\ bridges[b].closed}
    /\ sent' = <<>> /\ wrote' = <<>>
    /\ UNCHANGED <<listener, shutdown, atShutdown>>
    /\ handled' = NoMessage
    /\ call' = NoCall
    /\ UNCHANGED <<clVars, frVars, prVars, trVars, stVars>>

\* ServerInstance.close, up to wss.close(callback)
Shutdown ==
    /\ shutdown = "idle"
    /\ bridges' = [b \in DOMAIN bridges |->
                     IF \E c \in clients : chan[c].session = b
                     THEN PiSessionClose(bridges[b]) ELSE bridges[b]]
    /\ chan' = [c \in Channels |->
                  IF c \in clients /\ chan[c].ws = "open"
                  THEN [chan[c] EXCEPT !.ws = "closing"] ELSE chan[c]]
    /\ atShutdown' = clients
    /\ clients' = {}
    /\ listener' = "closing"
    /\ shutdown' = "awaiting"
    /\ reclosed' = {b \in DOMAIN bridges :
                       bridges[b].closed /\ \E c \in clients : chan[c].session = b}
    /\ sent' = <<>> /\ wrote' = <<>>
    /\ handled' = NoMessage
    /\ call' = NoCall
    /\ UNCHANGED <<clVars, frVars, prVars, trVars, stVars>>

\* the callback of wss.close: the listener has closed, every socket has ended
ListenerClosed ==
    /\ shutdown = "awaiting"
    /\ \A c \in Channels : chan[c].ws \in {"none", "closed"}
    /\ listener' = "closed"
    /\ shutdown' = "done"
    /\ sent' = <<>> /\ wrote' = <<>>
    /\ UNCHANGED <<clients, chan, bridges, atShutdown>>
    /\ reclosed' = {}
    /\ handled' = NoMessage
    /\ call' = NoCall
    /\ UNCHANGED <<clVars, frVars, prVars, trVars, stVars>>

\* ------------------------------------------------ RpcClient (client.ts)
NoSocket == 0
CmdIds == 1..MaxCommands
\* a message that bears no id
NoId == 0
MsgIds == CmdIds \cup {NoId}
\* the types of the commands the user issues
CommandNames == {"prompt", "get_state"}

ClInit ==
    /\ cSock = <<>>
    /\ cWs = NoSocket
    /\ cStatus = "disconnected"
    /\ cReconnect = FALSE
    /\ cSession = FALSE
    /\ cCounter = 0
    /\ cPending = {}
    /\ cTimers = {}
    /\ cOutcome = [id \in CmdIds |-> <<>>]
    /\ cEvent = <<>>
    /\ cConn = "idle"
    /\ cListener = NoSocket
    /\ cConnTimer = FALSE
    /\ cType = [id \in CmdIds |-> "none"]
    /\ cError = [id \in CmdIds |-> "none"]

\* this.ws && this.ws.readyState === WebSocket.OPEN
WsOpen == cWs # NoSocket /\ cSock[cWs] = "open"

\* what RpcClient.connect does to ws, status and the sockets
ConnectEffect ==
    IF WsOpen
    THEN UNCHANGED <<cSock, cWs, cStatus>>
    ELSE /\ cSock' = Append(cSock, "connecting")
         /\ cWs' = Len(cSock) + 1
         /\ cStatus' = "connecting"

\* RpcClient.connect, called by the user
ClConnect ==
    /\ WsOpen \/ Len(cSock) < MaxSockets
    /\ ConnectEffect
    /\ cEvent' = <<>>
    /\ UNCHANGED <<cReconnect, cSession, cCounter, cPending, cTimers, cOutcome>>
    /\ UNCHANGED <<gwVars, frVars, prVars, trVars, stVars>>
    /\ UNCHANGED <<hsVars, cmVars>>

\* ws.onopen of socket k
ClSocketOpen(k) ==
    /\ cSock[k] = "connecting"
    /\ cSock' = [cSock EXCEPT ![k] = "open"]
    /\ cStatus' = "connected"
    /\ cEvent' = <<>>
    /\ UNCHANGED <<cWs, cReconnect, cSession, cCounter, cPending, cTimers, cOutcome>>
    /\ UNCHANGED <<gwVars, frVars, prVars, trVars, stVars>>
    /\ UNCHANGED <<hsVars, cmVars>>

\* ws.onclose of socket k (options.reconnect is on), with handleReconnect
ClSocketClose(k) ==
    /\ cSock[k] \in {"connecting", "open", "closing"}
    /\ cSock' = [cSock EXCEPT ![k] = "closed"]
    /\ cSession' = FALSE
    /\ IF cStatus # "disconnected"
       THEN /\ cStatus' = "disconnected"
            /\ cReconnect' = TRUE
       ELSE UNCHANGED <<cStatus, cReconnect>>
    /\ cEvent' = <<>>
    /\ UNCHANGED <<cWs, cCounter, cPending, cTimers, cOutcome>>
    /\ UNCHANGED <<gwVars, frVars, prVars, trVars, stVars>>
    /\ UNCHANGED <<hsVars, cmVars>>

\* the reconnect timer fires: connect()
ClReconnectFire ==
    /\ cReconnect
    /\ WsOpen \/ Len(cSock) < MaxSockets
    /\ cReconnect' = FALSE
    /\ ConnectEffect
    /\ cEvent' = <<>>
    /\ UNCHANGED <<cSession, cCounter, cPending, cTimers, cOutcome>>
    /\ UNCHANGED <<gwVars, frVars, prVars, trVars, stVars>>
    /\ UNCHANGED <<hsVars, cmVars>>

\* a disconnect that starts the command ids afresh
ClDisconnectResetsCounter ==
    /\ cStatus' = "disconnected"
    /\ cSession' = FALSE
    /\ cReconnect' = FALSE
    /\ cSock' = IF cWs # NoSocket /\ cSock[cWs] \in {"connecting", "open"}
                THEN [cSock EXCEPT ![cWs] = "closing"] ELSE cSock
    /\ cWs' = NoSocket
    /\ cOutcome' = [id \in CmdIds |->
                      IF id \in cPending THEN Append(cOutcome[id], "disconnected")
                      ELSE cOutcome[id]]
    /\ cTimers' = cTimers \ cPending
    /\ cPending' = {}
    /\ cEvent' = <<>>
    /\ cCounter' = 0
    /\ UNCHANGED <<gwVars, frVars, prVars, trVars, stVars>>
    /\ UNCHANGED <<hsVars, cmVars>>

\* RpcClient.disconnect
ClDisconnect ==
    /\ cStatus' = "disconnected"
    /\ cSession' = FALSE
    /\ cReconnect' = FALSE
    /\ cSock' = IF cWs # NoSocket /\ cSock[cWs] \in {"connecting", "open"}
                THEN [cSock EXCEPT ![cWs] = "closing"] ELSE cSock
    /\ cWs' = NoSocket
    /\ cOutcome' = [id \in CmdIds |->
                      IF id \in cPending THEN Append(cOutcome[id], "disconnected")
                      ELSE cOutcome[id]]
    /\ cTimers' = cTimers \ cPending
    /\ cPending' = {}
    /\ cEvent' = <<>>
    /\ UNCHANGED cCounter
    /\ UNCHANGED <<gwVars, frVars, prVars, trVars, stVars>>
    /\ UNCHANGED <<hsVars, cmVars>>

\* RpcClient.command on an open socket (on any other it throws before a
\* pending entry exists)
ClCommand(type) ==
    /\ WsOpen
    /\ cCounter < MaxCommands
    /\ cCounter' = cCounter + 1
    /\ cTimers' = cTimers \cup {cCounter + 1}
    /\ cPending' = cPending \cup {cCounter + 1}
    /\ cType' = [cType EXCEPT ![cCounter + 1] = type]
    /\ cEvent' = <<>>
    /\ UNCHANGED <<cSock, cWs, cStatus, cReconnect, cSession, cOutcome, cError>>
    /\ UNCHANGED <<gwVars, frVars, prVars, trVars, stVars>>
    /\ UNCHANGED hsVars

\* RpcClient.connectSession, called once. The 10000 ms timer it sets is
\* cleared by the `cleanup` microtask it queues right after sending, before
\* any event can be handled: the timer is never pending between two turns.
ClConnectSession ==
    /\ cConn = "idle"
    /\ IF WsOpen
       THEN /\ cConn' = "waiting"
            /\ cListener' = cWs
       ELSE /\ cConn' = "rejected"
            /\ cListener' = NoSocket
    /\ cConnTimer' = FALSE
    /\ cEvent' = <<>>
    /\ UNCHANGED <<cSock, cWs, cStatus, cReconnect, cSession, cCounter, cPending, cTimers,
                   cOutcome, cmVars>>
    /\ UNCHANGED <<gwVars, frVars, prVars, trVars, stVars>>

\* connectSession's messageHandler on a message of socket k
ListenerEffect(k, kind) ==
    IF cListener = k /\ kind \in {"connected", "error"}
    THEN /\ cConn' = IF kind = "connected" THEN "resolved" ELSE "rejected"
         /\ cListener' = IF cWs = k THEN NoSocket ELSE cListener
         /\ UNCHANGED cConnTimer
    ELSE UNCHANGED hsVars

MessageKinds == {"response", "connected", "disconnected", "error", "event"}

\* handleMessage passes the message to options.onEvent: it is neither a
\* response whose id is present and truthy nor a connection message
Delivered(kind, id) ==
    /\ ~(kind = "response" /\ id # NoId)
    /\ kind \notin {"connected", "disconnected", "error"}

\* handleMessage that leaves the timeout timer of the command it resolves pending
ClMessageKeepsTimer(k, kind, id) ==
    /\ cSock[k] = "open"
    /\ IF kind = "response" /\ id # NoId /\ id \in cPending
       THEN /\ cPending' = cPending \ {id}
            /\ cOutcome' = [cOutcome EXCEPT ![id] = Append(@, "resolved")]
       ELSE UNCHANGED <<cPending, cOutcome>>
    /\ cSession' = IF kind = "disconnected" THEN FALSE
                   ELSE IF cListener = k /\ kind = "connected" THEN TRUE
                   ELSE cSession
    /\ ListenerEffect(k, kind)
    /\ cEvent' = IF Delivered(kind, id) THEN <<kind>> ELSE <<>>
    /\ UNCHANGED <<cSock, cWs, cStatus, cReconnect, cCounter, cTimers, cmVars>>
    /\ UNCHANGED <<gwVars, frVars, prVars, trVars, stVars>>

\* ws.onmessage of socket k: handleMessage. id: the id a response bears.
ClMessage(k, kind, id) ==
    /\ cSock[k] = "open"
    /\ IF kind = "response" /\ id # NoId /\ id \in cPending
       THEN /\ cTimers' = cTimers \ {id}
            /\ cPending' = cPending \ {id}
            /\ cOutcome' = [cOutcome EXCEPT ![id] = Append(@, "resolved")]
       ELSE UNCHANGED <<cTimers, cPending, cOutcome>>
    /\ cSession' = IF kind = "disconnected" THEN FALSE
                   ELSE IF cListener = k /\ kind = "connected" THEN TRUE
                   ELSE cSession
    /\ ListenerEffect(k, kind)
    /\ cEvent' = IF Delivered(kind, id) THEN <<kind>> ELSE <<>>
    /\ UNCHANGED <<cSock, cWs, cStatus, cReconnect, cCounter, cmVars>>
    /\ UNCHANGED <<gwVars, frVars, prVars, trVars, stVars>>

\* a timeout callback that rejects but leaves the entry in pendingCommands
ClCommandTimeoutKeepsEntry(id) ==
    /\ id \in cTimers
    /\ cTimers' = cTimers \ {id}
    /\ cOutcome' = [cOutcome EXCEPT ![id] = Append(@, "timeout")]
    /\ cError' = [cError EXCEPT ![id] = cType[id]]
    /\ cEvent' = <<>>
    /\ UNCHANGED <<cSock, cWs, cStatus, cReconnect, cSession, cCounter, cType, cPending>>
    /\ UNCHANGED <<gwVars, frVars, prVars, trVars, stVars>>
    /\ UNCHANGED hsVars

\* the timeout timer of command id fires
ClCommandTimeout(id) ==
    /\ id \in cTimers
    /\ cTimers' = cTimers \ {id}
    /\ cPending' = cPending \ {id}
    /\ cOutcome' = [cOutcome EXCEPT ![id] = Append(@, "timeout")]
    /\ cError' = [cError EXCEPT ![id] = cType[id]]
    /\ cEvent' = <<>>
    /\ UNCHANGED <<cSock, cWs, cStatus, cReconnect, cSession, cCounter, cType>>
    /\ UNCHANGED <<gwVars, frVars, prVars, trVars, stVars>>
    /\ UNCHANGED hsVars

\* ------------------------------------- PiSession.handleStdout (session.ts)
\* The characters of the worker's output: a digit, a letter, a blank and the
\* newline. JSON values over them are the numbers "1", "11", ...
Chars == {"1", "x", " ", "\n"}
Streams == UNION {[1..n -> Chars] : n \in 0..MaxStream}

\* String.prototype.split("\n"): the pieces between the newlines of s
RECURSIVE SplitLines(_)
SplitLines(s) ==
    IF \A i \in DOMAIN s : s[i] # "\n"
    THEN <<s>>
    ELSE LET i == CHOOSE j \in DOMAIN s :
                      s[j] = "\n" /\ \A k \in 1..(j - 1) : s[k] # "\n"
         IN  <<SubSeq(s, 1, i - 1)>> \o SplitLines(SubSeq(s, i + 1, Len(s)))

\* line.trim(): the line without its leading and trailing blanks
RECURSIVE Trim(_)
Trim(s) ==
    IF s = <<>> THEN s
    ELSE IF Head(s) = " " THEN Trim(Tail(s))
    ELSE IF s[Len(s)] = " " THEN Trim(SubSeq(s, 1, Len(s) - 1))
    ELSE s

\* JSON.parse(line) succeeds: blanks around one number
JsonValid(line) ==
    /\ Trim(line) # <<>>
    /\ \A i \in DOMAIN Trim(line) : Trim(line)[i] = "1"

\* JSON.parse(line): the value
JsonParse(line) == Trim(line)

\* a for loop that gives up at the first line that fails to parse
RECURSIVE DispatchStopsAtInvalid(_)
DispatchStopsAtInvalid(lines) ==
    IF lines = <<>> THEN <<>>
    ELSE IF Trim(Head(lines)) = <<>> THEN DispatchStopsAtInvalid(Tail(lines))
    ELSE IF JsonValid(Head(lines))
    THEN <<JsonParse(Head(lines))>> \o DispatchStopsAtInvalid(Tail(lines))
    ELSE <<>>

\* the for loop of handleStdout: the messages of the complete lines
RECURSIVE Dispatch(_)
Dispatch(lines) ==
    IF lines = <<>> THEN <<>>
    ELSE (IF Trim(Head(lines)) # <<>> /\ JsonValid(Head(lines))
          THEN <<JsonParse(Head(lines))>> ELSE <<>>) \o Dispatch(Tail(lines))

\* handleStdout that forgets the incomplete line at the end of a chunk
HandleStdoutDropsPartial(buffer, data) ==
    LET lines == SplitLines(buffer \o data)
    IN  [buffer |-> <<>>,
         out    |-> Dispatch(SubSeq(lines, 1, Len(lines) - 1))]

\* PiSession.handleStdout: the new buffer and the messages dispatched
HandleStdout(buffer, data) ==
    LET lines == SplitLines(buffer \o data)
    IN  [buffer |-> lines[Len(lines)],
         out    |-> Dispatch(SubSeq(lines, 1, Len(lines) - 1))]

FrInit ==
    /\ fInput \in Streams
    /\ fPos = 0
    /\ fBuffer = <<>>
    /\ fDelivered = <<>>
    /\ fChunks = 0
    /\ fState = "running"

\* stdout 'data': the next n characters arrive as one chunk
FrData(n) ==
    LET r == HandleStdout(fBuffer, SubSeq(fInput, fPos + 1, fPos + n)) IN
    /\ fState # "exited"
    /\ fPos + n <= Len(fInput)
    /\ fPos' = fPos + n
    /\ fBuffer' = r.buffer
    /\ fDelivered' = fDelivered \o r.out
    /\ fChunks' = fChunks + 1
    /\ UNCHANGED <<fInput, fState>>
    /\ UNCHANGED <<gwVars, clVars, prVars, trVars, stVars>>

\* PiSession.close(): the worker may go on writing until it ends
FrClose ==
    /\ fState = "running"
    /\ fState' = "closed"
    /\ UNCHANGED <<fInput, fPos, fBuffer, fDelivered, fChunks>>
    /\ UNCHANGED <<gwVars, clVars, prVars, trVars, stVars>>

\* a 'close' listener that hands what the buffer holds to handleStdout as
\* a last line
FrExitFlushes ==
    /\ fState # "exited"
    /\ fState' = "exited"
    /\ fBuffer' = <<>>
    /\ fDelivered' = fDelivered \o HandleStdout(fBuffer, <<"\n">>).out
    /\ UNCHANGED <<fInput, fPos, fChunks>>
    /\ UNCHANGED <<gwVars, clVars, prVars, trVars, stVars>>

\* the worker's 'close' event: its output has ended where it is; neither
\* the listener nor onClose reads the buffer
FrExit ==
    /\ fState # "exited"
    /\ fState' = "exited"
    /\ UNCHANGED <<fInput, fPos, fBuffer, fDelivered, fChunks>>
    /\ UNCHANGED <<gwVars, clVars, prVars, trVars, stVars>>

\* ------------------------- get_session_tree (server.ts 399-465)
\* One channel that is connected to a running worker and whose socket stays
\* open. Request i is the i-th get_session_tree the channel sends; its
\* stateId and its command id are both identified with i.
OriginalSink == 0
Probes == 1..MaxProbes

NoEmit == [type |-> "none", probe |-> 0, kind |-> "none"]
WorkerEventMsg == [type |-> "event", probe |-> 0, kind |-> "none"]
\* the worker's reply to get_state request i. kind "file": success with a
\* sessionFile; "nofile": success without one; "fail": success false
StateReply(i, kind) == [type |-> "get_state", probe |-> i, kind |-> kind]
ReplyKinds == {"file", "nofile", "fail"}
\* the response to get_session_tree request i
TreeResponse(i, kind) == [type |-> "get_session_tree", probe |-> i, kind |-> kind]
LocalResponse(type, ok) == [type |-> type, probe |-> 0, kind |-> IF ok THEN "ok" ELSE "failed"]
WorkerGone == [type |-> "disconnected", probe |-> 0, kind |-> "none"]

PrInit ==
    /\ pWorker = "running"
    /\ pSession = TRUE
    /\ pSink = OriginalSink
    /\ pCount = 0
    /\ pOrig = [i \in Probes |-> OriginalSink]
    /\ pResolved = {}
    /\ pTimer = {}
    /\ pInbox = <<>>
    /\ pAnswer = [i \in Probes |-> <<>>]
    /\ pCrashed = FALSE
    /\ pEmit = NoEmit
    /\ pSent = <<>>

\* client.session?.isActive() on this channel
PrActive == pSession /\ pWorker = "running"

\* the interceptHandler that keeps msg when handler h is called with it:
\* handler h keeps its own reply while its flag is unset and passes anything
\* else to the handler it captured; OriginalSink sends to the socket
RECURSIVE Catcher(_, _)
Catcher(h, msg) ==
    IF h = OriginalSink THEN OriginalSink
    ELSE IF h \notin pResolved /\ msg.type = "get_state" /\ msg.probe = h THEN h
    ELSE Catcher(pOrig[h], msg)

\* the rest of the get_session_tree handler once statePromise has resolved
TreeOutcome(kind, fsOk) ==
    IF kind = "file" THEN (IF fsOk THEN "tree" ELSE "failed") ELSE "empty"

\* get_session_tree on the connected channel, up to `await statePromise`
PrGetSessionTree ==
    LET i == pCount + 1 IN
    /\ ~pCrashed
    /\ PrActive
    /\ pCount < MaxProbes
    /\ pCount' = i
    /\ pOrig' = [pOrig EXCEPT ![i] = pSink]
    /\ pSink' = i
    /\ pInbox' = Append(pInbox, i)
    /\ pTimer' = pTimer \cup {i}
    /\ pEmit' = NoEmit
    /\ pSent' = <<>>
    /\ UNCHANGED <<pWorker, pSession, pResolved, pAnswer, pCrashed>>
    /\ UNCHANGED <<gwVars, clVars, frVars, trVars, stVars>>

\* list_sessions or delete_session on the connected channel
PrLocalCommand(type, fsOk) ==
    /\ ~pCrashed
    /\ PrActive
    /\ pSent' = <<LocalResponse(type, fsOk)>>
    /\ pEmit' = NoEmit
    /\ UNCHANGED <<pWorker, pSession, pSink, pCount, pOrig, pResolved, pTimer, pInbox,
                   pAnswer, pCrashed>>
    /\ UNCHANGED <<gwVars, clVars, frVars, trVars, stVars>>

\* session.options.onMessage(msg), and what follows in the same turn
Deliver(msg, fsOk) ==
    LET h == Catcher(pSink, msg) IN
    /\ pEmit' = msg
    /\ IF h = OriginalSink
       THEN /\ pSent' = <<msg>>
            /\ UNCHANGED <<pSink, pResolved, pAnswer>>
       ELSE /\ pResolved' = pResolved \cup {h}
            /\ IF pSession
               THEN /\ pSink' = pOrig[h]
                    /\ pAnswer' = [pAnswer EXCEPT ![h] = Append(@, TreeOutcome(msg.kind, fsOk))]
                    /\ pSent' = <<TreeResponse(h, TreeOutcome(msg.kind, fsOk))>>
               ELSE \* client.session is null: TypeError, caught by handleStdout
                    /\ pSent' = <<>>
                    /\ UNCHANGED <<pSink, pAnswer>>

\* the worker answers the oldest get_state request it has read
PrWorkerReply(kind, fsOk) ==
    /\ ~pCrashed
    /\ pWorker = "running"
    /\ pInbox # <<>>
    /\ pInbox' = Tail(pInbox)
    /\ Deliver(StateReply(Head(pInbox), kind), fsOk)
    /\ UNCHANGED <<pWorker, pSession, pCount, pOrig, pTimer, pCrashed>>
    /\ UNCHANGED <<gwVars, clVars, frVars, trVars, stVars>>

\* the worker emits a message of its own
PrWorkerEvent ==
    /\ ~pCrashed
    /\ pWorker = "running"
    /\ Deliver(WorkerEventMsg, TRUE)
    /\ UNCHANGED <<pWorker, pSession, pCount, pOrig, pTimer, pInbox, pCrashed>>
    /\ UNCHANGED <<gwVars, clVars, frVars, trVars, stVars>>

\* the 5000 ms timer of request i fires
PrTimeout(i) ==
    /\ ~pCrashed
    /\ i \in pTimer
    /\ pTimer' = pTimer \ {i}
    /\ pEmit' = NoEmit
    /\ IF i \in pResolved
       THEN /\ pSent' = <<>>
            /\ UNCHANGED <<pSink, pResolved, pAnswer, pCrashed>>
       ELSE /\ pResolved' = pResolved \cup {i}
            /\ IF pSession
               THEN /\ pSink' = pOrig[i]
                    /\ pAnswer' = [pAnswer EXCEPT ![i] = Append(@, "empty")]
                    /\ pSent' = <<TreeResponse(i, "empty")>>
                    /\ UNCHANGED pCrashed
               ELSE \* client.session is null: TypeError in a timer callback
                    /\ pCrashed' = TRUE
                    /\ pSent' = <<>>
                    /\ UNCHANGED <<pSink, pAnswer>>
    /\ UNCHANGED <<pWorker, pSession, pCount, pOrig, pInbox>>
    /\ UNCHANGED <<gwVars, clVars, frVars, trVars, stVars>>

\* the worker exits of its own accord; what it had not read is lost
PrWorkerExit ==
    /\ ~pCrashed
    /\ pWorker = "running"
    /\ pWorker' = "exited"
    /\ pInbox' = <<>>
    /\ pEmit' = NoEmit
    /\ pSent' = <<>>
    /\ UNCHANGED <<pSession, pSink, pCount, pOrig, pResolved, pTimer, pAnswer, pCrashed>>
    /\ UNCHANGED <<gwVars, clVars, frVars, trVars, stVars>>

\* the worker's 'close' event: onClose
PrWorkerClose ==
    /\ ~pCrashed
    /\ pWorker = "exited"
    /\ pWorker' = "closed"
    /\ pSession' = FALSE
    /\ pSent' = <<WorkerGone>>
    /\ pEmit' = NoEmit
    /\ UNCHANGED <<pSink, pCount, pOrig, pResolved, pTimer, pInbox, pAnswer, pCrashed>>
    /\ UNCHANGED <<gwVars, clVars, frVars, trVars, stVars>>

\* ------------------------------------- getSessionTree (session-manager)
TreeIds == {"a", "b", "c"}
\* parentId: null
NullParent == "null"
LabelNames == {"L1", "L2"}
\* the id of the label record that sets a name; a label record is an entry
\* of the session (SessionEntryBase), so a later entry can name it as parent
LabelId(name) == IF name = "L1" THEN "l1" ELSE "l2"
LabelIds == {LabelId(name) : name \in LabelNames}
\* the id of the header
SessionId == "s"
\* a field the record kind does not have; labels.get(id) or currentId undefined
Absent == "undefined"

\* the records a line of the log can parse to: the header, a label, an entry
LogRecords ==
    [type : {"session"}, id : {SessionId}, parentId : {Absent}, targetId : {Absent},
     labelName : {Absent}]
    \cup {[type |-> "label", id |-> LabelId(name), parentId |-> NullParent, targetId |-> t,
           labelName |-> name] : name \in LabelNames, t \in TreeIds}
    \cup [type : {"message"}, id : TreeIds, parentId : TreeIds \cup {LabelId("L1"), NullParent},
          targetId : {Absent}, labelName : {Absent}]

\* a line of white space only, and a line JSON.parse throws on
BlankLine ==
    [type |-> "blank", id |-> Absent, parentId |-> Absent, targetId |-> Absent,
     labelName |-> Absent]
MalformedLine ==
    [type |-> "malformed", id |-> Absent, parentId |-> Absent, targetId |-> Absent,
     labelName |-> Absent]
\* the lines of a log that has blank and malformed lines among the records
\* of two entries, each as what the reading loop makes of it
LogLines ==
    {r \in LogRecords : {r.id, r.parentId, r.targetId} \cap {"c", LabelId("L1")} = {}}
    \cup {BlankLine, MalformedLine}
\* !line.trim()
LineBlank(l) == l = BlankLine
\* JSON.parse(line) throws
ParseThrows(l) == l = MalformedLine

SetMax(S) == CHOOSE x \in S : \A y \in S : y <= x

\* the positions from i on at which the sequence of booleans is TRUE, in order
RECURSIVE Positions(_, _)
Positions(keep, i) ==
    IF i > Len(keep) THEN <<>>
    ELSE (IF keep[i] THEN <<i>> ELSE <<>>) \o Positions(keep, i + 1)

\* a reading loop whose first malformed line ends the reading
TrEntriesStopAtMalformed(log) ==
    LET bad == {i \in DOMAIN log : ParseThrows(log[i])}
        read == IF bad = {} THEN log
                ELSE SubSeq(log, 1, (CHOOSE i \in bad : \A j \in bad : i <= j) - 1)
    IN  SelectSeq(read, LAMBDA l : ~LineBlank(l) /\ l.type \notin {"session", "label"})

\* `entries` after the reading loop
TrEntries(log) ==
    SelectSeq(log, LAMBDA l : /\ ~LineBlank(l)
                              /\ ~ParseThrows(l)
                              /\ l.type \notin {"session", "label"})

\* a labels map that keeps the first label set for id
TrLabelFirst(log, id) ==
    LET at == {i \in DOMAIN log : log[i].type = "label" /\ log[i].targetId = id}
    IN  IF at = {} THEN Absent ELSE log[CHOOSE i \in at : \A j \in at : i <= j].labelName

\* labels.get(id) after the reading loop: the last label set for id
TrLabel(log, id) ==
    LET at == {i \in DOMAIN log : log[i].type = "label" /\ log[i].targetId = id}
    IN  IF at = {} THEN Absent ELSE log[SetMax(at)].labelName

\* a reading loop that keeps the id of the first entry
TrCurrentIdFirst(log) ==
    LET es == TrEntries(log) IN IF es = <<>> THEN Absent ELSE es[1].id

\* currentId after the reading loop: the id of the last entry
TrCurrentId(log) ==
    LET es == TrEntries(log) IN IF es = <<>> THEN Absent ELSE es[Len(es)].id

\* nodeMap.get(id) after the node-creating loop, the node of entry i being
\* allocated at base + i: the last node set for id, 0 when there is none
NodeMapGet(es, base, id) ==
    LET at == {i \in DOMAIN es : es[i].id = id}
    IN  IF at = {} THEN 0 ELSE base + SetMax(at)

\* the linking loop pushes the node of entry e to roots
PushedToRoots(es, base, e) ==
    \/ e.parentId = NullParent
    \/ e.parentId = e.id
    \/ NodeMapGet(es, base, e.parentId) = 0

\* a linking loop that pushes no orphan to roots
TrRootsNoOrphans(es, base) ==
    LET at == Positions([i \in DOMAIN es |->
                            es[i].parentId = NullParent \/ es[i].parentId = es[i].id], 1)
    IN  [j \in DOMAIN at |-> NodeMapGet(es, base, es[at[j]].id)]

\* `roots` after the linking loop
TrRoots(es, base) ==
    LET at == Positions([i \in DOMAIN es |-> PushedToRoots(es, base, es[i])], 1)
    IN  [j \in DOMAIN at |-> NodeMapGet(es, base, es[at[j]].id)]

\* a linking loop that attaches every entry with a parent to the first node
TrChildrenFirstNode(es, base, node) ==
    LET at == Positions([i \in DOMAIN es |->
                            ~PushedToRoots(es, base, es[i]) /\ node = base + 1], 1)
    IN  [j \in DOMAIN at |-> NodeMapGet(es, base, es[at[j]].id)]

\* `children` of the node at address `node` after the linking loop
TrChildren(es, base, node) ==
    LET at == Positions([i \in DOMAIN es |->
                            /\ ~PushedToRoots(es, base, es[i])
                            /\ NodeMapGet(es, base, es[i].parentId) = node], 1)
    IN  [j \in DOMAIN at |-> NodeMapGet(es, base, es[at[j]].id)]

\* the nodes one call allocates, as they are when it returns
TrNodes(log, base) ==
    LET es == TrEntries(log)
        cur == TrCurrentId(log)
    IN  [i \in DOMAIN es |->
            [id |-> es[i].id,
             parentId |-> es[i].parentId,
             label |-> TrLabel(log, es[i].id),
             children |-> TrChildren(es, base, base + i),
             isCurrent |-> cur # Absent /\ NodeMapGet(es, base, cur) = base + i]]

\* what one call returns; `first`, `last`: the addresses it allocated
GetSessionTree(log, base) ==
    [tree |-> TrRoots(TrEntries(log), base),
     currentId |-> TrCurrentId(log),
     first |-> base + 1,
     last |-> base + Len(TrEntries(log))]

\* the entry (by position among the entries) that entry i names as its
\* parent, 0 when it names none
ParentEntry(es, i) ==
    LET at == {j \in DOMAIN es : j # i /\ es[j].id = es[i].parentId}
    IN  IF at = {} THEN 0 ELSE SetMax(at)

RECURSIVE Ancestor(_, _, _)
Ancestor(es, i, k) ==
    IF k = 0 \/ i = 0 THEN i ELSE Ancestor(es, ParentEntry(es, i), k - 1)

\* what holds of every log the agent writes: the ids of its records are
\* unique and the parent ids form a forest
IsLog(log) ==
    LET es == TrEntries(log)
    IN  /\ \A i, j \in DOMAIN log : (log[i].id = log[j].id /\ log[i].id # Absent) => i = j
        /\ \A i \in DOMAIN es : Ancestor(es, i, Len(es)) = 0

\* the logs of at most `lines` lines
Logs(lines) == {log \in UNION {[1..n -> LogRecords] : n \in 0..lines} : IsLog(log)}
\* the logs of at most `lines` lines, not all of which are records
LineLogs(lines) == {log \in UNION {[1..n -> LogLines] : n \in 0..lines} : IsLog(log)}

TrIdle == tLog = <<>> /\ tHeap = <<>> /\ tResults = <<>>

TrInit ==
    /\ tLog \in Logs(MaxLog)
    /\ tHeap = <<>>
    /\ tResults = <<>>

TrLinesInit ==
    /\ tLog \in LineLogs(MaxLog)
    /\ tHeap = <<>>
    /\ tResults = <<>>

\* a getSessionTree that keeps its nodes from one call to the next
TrBuildCached ==
    /\ Len(tResults) < MaxBuilds
    /\ tHeap' = IF tHeap = <<>> THEN TrNodes(tLog, 0) ELSE tHeap
    /\ tResults' = Append(tResults, GetSessionTree(tLog, 0))
    /\ UNCHANGED tLog
    /\ UNCHANGED <<gwVars, clVars, frVars, prVars, stVars>>

\* one call of getSessionTree on the log
TrBuild ==
    /\ Len(tResults) < MaxBuilds
    /\ tHeap' = tHeap \o TrNodes(tLog, Len(tHeap))
    /\ tResults' = Append(tResults, GetSessionTree(tLog, Len(tHeap)))
    /\ UNCHANGED tLog
    /\ UNCHANGED <<gwVars, clVars, frVars, prVars, stVars>>

\* --------------------------- event subscribers of the store (store.ts)
\* the functions passed to subscribeToEvents; they return normally and do
\* not call the store
ListenerFns == {"f", "g"}
\* the events whose handling is modelled
EventTypes == {"agent_start", "agent_end"}
NoEvent == "none"

StIdle ==
    /\ sListeners = <<>>
    /\ sSubs = <<>>
    /\ sSession = "null"
    /\ sGot = <<>>
    /\ sEvent = NoEvent

\* the store before or after a session is connected
StInit ==
    /\ sListeners = <<>>
    /\ sSubs = <<>>
    /\ sSession \in {"null", "idle"}
    /\ sGot = <<>>
    /\ sEvent = NoEvent

\* Set.prototype.add on a Set held in insertion order
SetAdd(set, x) == IF \E i \in DOMAIN set : set[i] = x THEN set ELSE Append(set, x)
\* Set.prototype.delete
SetDelete(set, x) == SelectSeq(set, LAMBDA y : y # x)

\* subscribeToEvents(fn)
StSubscribe(fn) ==
    /\ Len(sSubs) < MaxSubs
    /\ sListeners' = SetAdd(sListeners, fn)
    /\ sSubs' = Append(sSubs, [fn |-> fn, called |-> FALSE])
    /\ sGot' = <<>>
    /\ sEvent' = NoEvent
    /\ UNCHANGED sSession
    /\ UNCHANGED <<gwVars, clVars, frVars, prVars, trVars>>

\* the function the r-th subscribeToEvents call returned is called
StUnsubscribe(r) ==
    /\ r \in DOMAIN sSubs
    /\ sListeners' = SetDelete(sListeners, sSubs[r].fn)
    /\ sSubs' = [sSubs EXCEPT ![r].called = TRUE]
    /\ sGot' = <<>>
    /\ sEvent' = NoEvent
    /\ UNCHANGED sSession
    /\ UNCHANGED <<gwVars, clVars, frVars, prVars, trVars>>

\* handleEvent(event): the listeners are called in the order of the Set,
\* then the store's own state follows the event
StHandleEvent(type) ==
    /\ sGot' = sListeners
    /\ sEvent' = type
    /\ sSession' = IF sSession = "null" THEN "null"
                   ELSE IF type = "agent_start" THEN "streaming" ELSE "idle"
    /\ UNCHANGED <<sListeners, sSubs>>
    /\ UNCHANGED <<gwVars, clVars, frVars, prVars, trVars>>

\* ------------------------------------------------------ specifications
FrIdle ==
    /\ fInput = <<>> /\ fPos = 0 /\ fBuffer = <<>> /\ fDelivered = <<>> /\ fChunks = 0
    /\ fState = "running"

\* the Connection Gateway with its Bridges
Init == GwInit /\ ClInit /\ FrIdle /\ PrInit /\ TrIdle /\ StIdle
\* every handler but the listener's 'connection' handler
GatewayHandlers ==
    \/ \E c \in Channels, cwd \in ConnectCwds, launch \in {"ok", "fail"} : MsgConnect(c, cwd, launch)
    \/ \E c \in Channels, text \in InboundTexts :
          \E ok \in (IF Member(MessageParse(text), "type") \in LocalCommands
                      THEN BOOLEAN ELSE {TRUE}) : MsgCommand(c, text, ok)
    \/ \E c \in Channels : MsgUnparsable(c)
    \/ \E b \in DOMAIN bridges : SpawnResume(b)
    \/ \E b \in DOMAIN bridges : WorkerExit(b)
    \/ \E b \in DOMAIN bridges : WorkerKilled(b)
    \/ \E b \in DOMAIN bridges : WorkerError(b)
    \/ \E b \in DOMAIN bridges : WorkerClose(b)
    \/ \E b \in DOMAIN bridges : KillTimerFire(b)
    \/ \E c \in Channels : WsClose(c)
    \/ Shutdown
    \/ ListenerClosed
Next ==
    \/ \E c \in Channels : Connection(c)
    \/ GatewayHandlers
Spec == Init /\ [][Next]_vars

\* the Gateway with the one channel that connects first: what a channel's
\* handlers touch is its own record and its own Bridges
OneChannelNext ==
    \/ \E c \in Channels : Connection(c) /\ (\A d \in Channels : chan[d].ws = "none")
    \/ GatewayHandlers
OneChannelSpec == Init /\ [][OneChannelNext]_vars

\* the Connection Gateway of one channel, and a holder of its Bridges (or
\* of one never started) that calls send on them directly
BridgeNext ==
    \/ OneChannelNext
    \/ \E b \in DOMAIN bridges \cup {Unstarted}, text \in SendTexts : PiSessionSend(b, text)
BridgeSpec == Init /\ [][BridgeNext]_vars

\* one RPC Client
ClientNext ==
    \/ ClConnect
    \/ \E k \in DOMAIN cSock : ClSocketOpen(k)
    \/ \E k \in DOMAIN cSock : ClSocketClose(k)
    \/ ClReconnectFire
    \/ ClDisconnect
    \/ ClCommand("prompt")
    \/ \E k \in DOMAIN cSock, kind \in MessageKinds, id \in MsgIds : ClMessage(k, kind, id)
    \/ \E id \in CmdIds : ClCommandTimeout(id)
ClientSpec == Init /\ [][ClientNext]_vars
\* a timer that is set and not cleared fires
ClientFairSpec == ClientSpec /\ \A id \in CmdIds : WF_clVars(ClCommandTimeout(id))

\* one RPC Client that connects once and whose user issues commands of
\* every type
CommandNext ==
    \/ ClConnect /\ cSock = <<>>
    \/ \E k \in DOMAIN cSock : ClSocketOpen(k)
    \/ \E type \in CommandNames : ClCommand(type)
    \/ \E k \in DOMAIN cSock, kind \in MessageKinds, id \in MsgIds : ClMessage(k, kind, id)
    \/ \E id \in CmdIds : ClCommandTimeout(id)
    \/ ClDisconnect
CommandSpec == Init /\ [][CommandNext]_vars

\* one RPC Client whose user also calls connectSession
HandshakeNext ==
    \/ ClientNext
    \/ ClConnectSession
HandshakeSpec == Init /\ [][HandshakeNext]_vars
HandshakeFairSpec == HandshakeSpec /\ \A id \in CmdIds : WF_clVars(ClCommandTimeout(id))

\* the output framing of one Bridge
FramingNext ==
    \/ \E n \in 1..MaxStream : FrData(n)
    \/ FrClose
    \/ FrExit
FramingInit == GwInit /\ ClInit /\ FrInit /\ PrInit /\ TrIdle /\ StIdle
FramingSpec == FramingInit /\ [][FramingNext]_vars

\* getSessionTree called on one log, which nothing else writes meanwhile
TreeInit == GwInit /\ ClInit /\ FrIdle /\ PrInit /\ TrInit /\ StIdle
TreeNext == TrBuild
TreeSpec == TreeInit /\ [][TreeNext]_vars

\* getSessionTree called on one log some of whose lines are no records
LinesInit == GwInit /\ ClInit /\ FrIdle /\ PrInit /\ TrLinesInit /\ StIdle
LinesSpec == LinesInit /\ [][TreeNext]_vars

\* the store's event subscribers and the events passed to it
StoreInit == GwInit /\ ClInit /\ FrIdle /\ PrInit /\ TrIdle /\ StInit
StoreNext ==
    \/ \E fn \in ListenerFns : StSubscribe(fn)
    \/ \E r \in DOMAIN sSubs : StUnsubscribe(r)
    \/ \E type \in EventTypes : StHandleEvent(type)
StoreSpec == StoreInit /\ [][StoreNext]_vars

\* get_session_tree on one connected channel
ProbeNext ==
    \/ PrGetSessionTree
    \/ \E type \in LocalCommands, fsOk \in BOOLEAN : PrLocalCommand(type, fsOk)
    \/ \E kind \in ReplyKinds, fsOk \in BOOLEAN : PrWorkerReply(kind, fsOk)
    \/ PrWorkerEvent
    \/ \E i \in Probes : PrTimeout(i)
    \/ PrWorkerExit
    \/ PrWorkerClose
ProbeSpec == Init /\ [][ProbeNext]_vars
\* a timer that is set fires
ProbeFairSpec == ProbeSpec /\ \A i \in Probes : WF_prVars(PrTimeout(i))

\* ================================================================ claims
\* a channel's Bridge reference points to nothing, or to a Bridge that is
\* closed or whose worker has an exit status
NoActiveBridge(c) ==
    \/ chan[c].session = NoSession
    \/ bridges[chan[c].session].closed
    \/ bridges[chan[c].session].exitCode # "null"

\* the Bridges constructed for channel c whose worker runs and that are not closed
LiveBridges(c) ==
    {b \in DOMAIN bridges : bridges[b].owner = c /\ bridges[b].alive /\ ~bridges[b].closed}

\* C1: at every moment a channel has at most one started and not yet closed
\* Bridge with a live worker, whatever the interleaving of its messages.
C1_AtMostOneLiveBridge ==
    \A c \in Channels : Cardinality(LiveBridges(c)) <= 1

\* C2: every command an RPC Client has issued is settled exactly once: by
\* the response bearing its id, by its timeout, or by disconnect(); it is
\* pending exactly as long as it is not settled, and it is settled eventually.
C2_SettledExactlyOnce ==
    /\ [](\A id \in CmdIds :
            /\ Len(cOutcome[id]) <= 1
            /\ id \in cPending <=> (id <= cCounter /\ cOutcome[id] = <<>>))
    /\ \A id \in CmdIds : (id <= cCounter) ~> (Len(cOutcome[id]) = 1)

\* C2 witness: three commands, one settled in each of the three ways
C2_Witness ==
    \E i, j, k \in CmdIds :
        /\ cOutcome[i] = <<"resolved">>
        /\ cOutcome[j] = <<"timeout">>
        /\ cOutcome[k] = <<"disconnected">>

\* the lines of a stream that ends with a newline, each without its newline
LinesOf(stream) == SubSeq(SplitLines(stream), 1, Len(SplitLines(stream)) - 1)

\* newline-terminated lines, each one JSON value
WellFormed(stream) ==
    /\ stream # <<>> => stream[Len(stream)] = "\n"
    /\ \A i \in DOMAIN LinesOf(stream) : JsonValid(LinesOf(stream)[i])

\* what handleStdout dispatches when every line arrives as one whole chunk
RECURSIVE WholeLines(_, _)
WholeLines(buffer, lines) ==
    IF lines = <<>> THEN <<>>
    ELSE LET r == HandleStdout(buffer, Head(lines) \o <<"\n">>)
         IN  r.out \o WholeLines(r.buffer, Tail(lines))

C4_ForcedKillAfterDelay ==
    [][\A b \in DOMAIN bridges :
         /\ (KillTimerFire(b) /\ bridges[b].alive)
               => bridges'[b].sigkill = bridges[b].sigkill + 1
         /\ WorkerClose(b)
               => ~bridges'[b].timerArmed /\ bridges'[b].sigkill <= bridges[b].sigkill]_vars

\* C5: over any sequence of close() calls on one Bridge, from any path, at
\* most one SIGTERM is sent to its worker and a close() after the first
\* changes nothing of the Bridge.
C5_CloseIdempotent ==
    /\ [](\A b \in DOMAIN bridges : bridges[b].sigterm <= 1)
    /\ [][\A b \in reclosed' : bridges'[b] = bridges[b]]_vars

\* C5 witness: a handler has called close() on a Bridge that an earlier
\* close() had closed (its SIGTERM is out, its kill timer still pending)
C5_Witness ==
    \E b \in reclosed : bridges[b].sigterm = 1 /\ bridges[b].timerArmed

\* C6: on a channel without an active Bridge a message other than connect is
\* answered with the not-connected error, nothing is written to any worker,
\* and the channel's Bridge reference and working context stay as they were.
C6_NotConnectedRejected ==
    [][\A c \in Channels :
         (handled'.ch = c /\ handled'.type \in CommandTypes /\ NoActiveBridge(c))
            => /\ sent' = <<[to |-> c, msg |-> NotConnected]>>
               /\ wrote' = <<>>
               /\ chan' = chan
               /\ bridges' = bridges]_vars

\* C6 witness: a channel whose worker has exited (the reference is still
\* set) has just been told that it is not connected
C6_Witness ==
    \E c \in Channels :
        /\ sent = <<[to |-> c, msg |-> NotConnected]>>
        /\ chan[c].session # NoSession
        /\ NoActiveBridge(c)

\* C7: a connect on a channel that has an active Bridge is answered with an
\* error and nothing else happens: no Bridge is closed, replaced or
\* constructed and the working context is unchanged.
C7_ConnectWhileConnected ==
    [][\A c \in Channels :
         (handled' = Inbound("connect", c) /\ ~NoActiveBridge(c))
            => /\ sent' = <<[to |-> c, msg |-> AlreadyConnected]>>
               /\ wrote' = <<>>
               /\ chan' = chan
               /\ bridges' = bridges]_vars

\* C7 witness: a connected channel has just been refused a second connect
C7_Witness ==
    \E c \in Channels :
        /\ sent = <<[to |-> c, msg |-> AlreadyConnected]>>
        /\ ~NoActiveBridge(c)

\* C8: once a channel's socket has closed its record is gone and every
\* Bridge constructed for it whose start has been awaited is closed or has
\* no running worker, also when the socket closed while the connect was
\* awaiting the start.
C8_DisconnectClosesBridges ==
    \A c \in Channels :
        chan[c].ws = "closed"
           => /\ c \notin clients
              /\ \A b \in DOMAIN bridges :
                    (bridges[b].owner = c /\ ~bridges[b].awaiting)
                       => bridges[b].closed \/ ~bridges[b].alive

\* C9: shutdown has closed the Bridge of every registered channel, left no
\* registered socket open and emptied the registry when it asks the listener
\* to close; it completes only when the listener has closed; and once it has
\* completed no Bridge of a channel registered at shutdown is active.
C9_ShutdownClosesEverything ==
    /\ listener # "listening"
          => /\ clients = {}
             /\ \A c \in atShutdown : chan[c].ws # "open"
    /\ shutdown = "done" => listener = "closed"
    /\ shutdown = "done"
          => \A b \in DOMAIN bridges :
                bridges[b].owner \in atShutdown => ~IsActive(bridges[b])

\* C10: after shutdown has begun, the outcome of a connect that was awaiting
\* the start delivers nothing to the channel, does not register the channel
\* again and, once the channel's socket has closed, leaves no running and
\* unclosed worker attached to the removed channel.
C10_LateConnectDiscarded ==
    \A c \in atShutdown :
        /\ \A i \in DOMAIN sent : sent[i].to # c
        /\ c \notin clients
        /\ (chan[c].ws = "closed" /\ chan[c].session # NoSession)
              => ~bridges[chan[c].session].alive \/ bridges[chan[c].session].closed

\* C11: a get_session_tree request received on the connected channel gets at
\* most one response, and eventually gets one, whether the worker replies,
\* stays silent or exits while the request is being handled.
C11_LocalCommandAnswered ==
    /\ [](\A i \in Probes : Len(pAnswer[i]) <= 1)
    /\ \A i \in Probes : (pCount >= i) ~> (Len(pAnswer[i]) = 1)

\* C12: no event on the channel (a worker exit while a request is waiting
\* for its get_state reply included) raises an error that ends the Gateway
\* process, and with it every other channel.
C12_FailuresStayLocal == ~pCrashed

\* C13: a get_state reply that arrives while its request's timer is pending
\* is kept by that request and not passed to the socket, however many
\* requests overlap; and once every request received has resolved, the
\* worker's message sink is the original one again.
C13_OverlappingProbes ==
    /\ (pEmit.type = "get_state" /\ pEmit.probe \in pTimer) => pSent # <<pEmit>>
    /\ (\A i \in 1..pCount : i \in pResolved) => pSink = OriginalSink

\* C14: every worker message that is not a get_state reply goes to the
\* socket, once, in the step the worker emits it; no get_state reply ever
\* goes to the socket, before or after its request's timeout.
C14_ProbeLeavesStreamIntact ==
    /\ pEmit.type = "event" => pSent = <<pEmit>>
    /\ \A k \in DOMAIN pSent : pSent[k].type # "get_state"

\* C15: once the bounded wait of a get_session_tree request is over the
\* request has its response, and a reply without success or without a log
\* file is answered with the empty tree.
C15_EmptyTreeFallback ==
    /\ \A i \in 1..pCount : i \notin pTimer => Len(pAnswer[i]) = 1
    /\ (pEmit.type = "get_state" /\ pEmit.kind # "file")
          => \A k \in DOMAIN pSent :
                pSent[k].type = "get_session_tree" => pSent[k].kind = "empty"

\* the step in which the 'close' event of Bridge b is handled
CloseHandled(b) == ~bridges[b].closeEmitted /\ bridges'[b].closeEmitted
\* the step in which the connect handler of Bridge b resumes after its await
StartAwaited(b) == bridges[b].awaiting /\ ~bridges'[b].awaiting

\* C16: a connect on a channel without an active Bridge constructs a Bridge
\* for the channel; when its start has succeeded the channel references it
\* and is sent the connected acknowledgment; when its start has failed the
\* channel references no Bridge and is sent an error.
C16_ConnectOutcome ==
    [][/\ \A c \in Channels :
            (handled' = Inbound("connect", c) /\ NoActiveBridge(c))
               => /\ Len(bridges') = Len(bridges) + 1
                  /\ bridges'[Len(bridges')].owner = c
       /\ \A b \in DOMAIN bridges :
            StartAwaited(b) =>
               LET c == bridges[b].owner IN
               IF bridges[b].exitCode = "null"
               THEN /\ chan'[c].session = b
                    /\ chan[c].ws = "open" => sent' = <<[to |-> c, msg |-> ConnectedMsg]>>
               ELSE /\ chan'[c].session = NoSession
                    /\ chan[c].ws = "open" => sent' = <<[to |-> c, msg |-> SpawnFailed]>>]_vars

\* C17: when the worker of the Bridge a channel references has exited on its
\* own, handling its 'close' event sends the channel one disconnected
\* notification with the exit code, empties the channel's Bridge reference
\* and leaves the socket and the registry as they were; a disconnected
\* notification is sent at no other step, and a 'close' event is handled
\* once per Bridge.
C17_WorkerExitDemotes ==
    [][/\ \A b \in DOMAIN bridges :
            /\ bridges[b].closeEmitted => bridges'[b].closeEmitted
            /\ (CloseHandled(b) /\ ~bridges[b].closed /\ chan[bridges[b].owner].session = b)
                  => LET c == bridges[b].owner IN
                     /\ chan'[c].session = NoSession
                     /\ chan'[c].ws = chan[c].ws
                     /\ clients' = clients
                     /\ chan[c].ws = "open"
                           => sent' = <<[to |-> c, msg |-> DisconnectedMsg(bridges[b].exitCode)]>>
       /\ \A k \in DOMAIN sent' :
            sent'[k].msg.type = "disconnected"
               => \E b \in DOMAIN bridges : CloseHandled(b) /\ bridges[b].owner = sent'[k].to]_vars

\* C17 witness: an open channel has just been told that its worker exited
\* with status 1 and references no Bridge
C17_Witness ==
    \E c \in Channels :
        /\ sent = <<[to |-> c, msg |-> DisconnectedMsg("1")]>>
        /\ chan[c].session = NoSession
        /\ chan[c].ws = "open"

\* C18: a connectSession that is waiting eventually resolves or rejects, and
\* once it has done so its message listener is on no socket.
C18_ConnectSessionSettles ==
    /\ (cConn = "waiting") ~> (cConn \in {"resolved", "rejected"})
    /\ [](cConn \in {"resolved", "rejected"} => cListener = NoSocket)

\* C19: a disconnect() and the closure of the client's current socket each
\* leave no command pending.
C19_DisconnectRejectsPending ==
    [][/\ ClDisconnect => cPending' = {}
       /\ \A k \in DOMAIN cSock : (ClSocketClose(k) /\ k = cWs) => cPending' = {}]_vars

\* C20: from disconnect() until the next connect() (this.ws is null) the
\* status is disconnected, no reconnect is scheduled and no command is
\* pending, whatever socket events arrive.
C20_DisconnectIsFinal ==
    cWs = NoSocket => cStatus = "disconnected" /\ ~cReconnect /\ cPending = {}

\* C21: when the socket the client currently holds closes and disconnect()
\* has not been called since the last connect(), a reconnect attempt is
\* scheduled.
C21_ReconnectScheduled ==
    [][\A k \in DOMAIN cSock : (ClSocketClose(k) /\ k = cWs) => cReconnect']_vars

\* C22: the event callback never receives a response or a connected,
\* disconnected or error message.
C22_OnlyEventsDelivered ==
    \A i \in DOMAIN cEvent : cEvent[i] \notin {"response", "connected", "disconnected", "error"}

\* C23: a command rejected by its timeout is rejected with an error naming
\* the type it was issued with and is no longer in the pending table; from
\* then on nothing settles it again, whatever response arrives.
C23_TimeoutRejects ==
    /\ [](\A id \in CmdIds :
            cOutcome[id] # <<>> /\ cOutcome[id][1] = "timeout" =>
                /\ cError[id] = cType[id]
                /\ cType[id] \in CommandNames
                /\ id \notin cPending)
    /\ [][\A id \in CmdIds :
            cOutcome[id] # <<>> /\ cOutcome[id][1] = "timeout" =>
                /\ cOutcome'[id] = cOutcome[id]
                /\ id \notin cPending']_vars

\* C23 witness: a get_state command timed out while the socket is still
\* open, so that its response can still arrive
C23_Witness ==
    \E id \in CmdIds :
        /\ cOutcome[id] = <<"timeout">>
        /\ cError[id] = "get_state"
        /\ WsOpen

\* ---- the Session Log Tree Builder
SeqRange(s) == {s[i] : i \in DOMAIN s}

\* the nodes one call allocated
NodesOf(r) == r.first..r.last

RECURSIVE ReachFrom(_, _)
ReachFrom(S, k) ==
    IF k = 0 THEN S
    ELSE ReachFrom(S \cup UNION {SeqRange(tHeap[a].children) : a \in S}, k - 1)

\* the nodes reachable from the top level of result r
Reach(r) == ReachFrom(SeqRange(r.tree), Len(tHeap))

RECURSIVE SumChildren(_)
SumChildren(S) ==
    IF S = {} THEN 0
    ELSE LET a == CHOOSE x \in S : TRUE
         IN  Len(tHeap[a].children) + SumChildren(S \ {a})

\* the entries with a null or self parent id, and those whose parent id
\* resolves to no record that has a node (header and label records have none)
NullOrSelf(es) == {i \in DOMAIN es : es[i].parentId = NullParent \/ es[i].parentId = es[i].id}
Unresolved(es) ==
    {i \in DOMAIN es \ NullOrSelf(es) : \A j \in DOMAIN es : es[j].id # es[i].parentId}

StrictlyIncreasing(s) == \A i, j \in DOMAIN s : i < j => s[i] < s[j]

IsRootNode(r, a) ==
    /\ a \in SeqRange(r.tree)
    /\ \A b \in NodesOf(r) : a \notin SeqRange(tHeap[b].children)

IsChildOf(r, a, p) ==
    /\ a \notin SeqRange(r.tree)
    /\ \A b \in NodesOf(r) : a \in SeqRange(tHeap[b].children) <=> b = p

\* the tree below node a as a value, without node identities
RECURSIVE Unfold(_, _)
Unfold(a, k) ==
    [id |-> tHeap[a].id,
     parentId |-> tHeap[a].parentId,
     label |-> tHeap[a].label,
     isCurrent |-> tHeap[a].isCurrent,
     children |-> IF k = 0 THEN <<>>
                  ELSE [j \in DOMAIN tHeap[a].children |->
                           Unfold(tHeap[a].children[j], k - 1)]]

Shape(r) ==
    [tree |-> [j \in DOMAIN r.tree |-> Unfold(r.tree[j], MaxLog + 1)],
     currentId |-> r.currentId]

\* C24: with N entries (non-header, non-label records) of which K have a
\* parent id that is the id of no entry and R a null or self parent id,
\* every built forest has exactly K + R top-level
\* nodes, all distinct, and exactly the N nodes of the build are reachable
\* from the top level, each attached once.
C24_ForestCounts ==
    \A n \in DOMAIN tResults :
        LET r == tResults[n]
            es == TrEntries(tLog)
            top == Cardinality(Unresolved(es)) + Cardinality(NullOrSelf(es))
        IN  /\ Len(r.tree) = top
            /\ Cardinality(SeqRange(r.tree)) = top
            /\ Reach(r) = NodesOf(r)
            /\ Cardinality(Reach(r)) = Len(es)
            /\ Len(r.tree) + SumChildren(Reach(r)) = Len(es)

\* C24 witness: a forest built from three entries: one with a null parent,
\* one orphan and one child
C24_Witness ==
    \E n \in DOMAIN tResults :
        LET es == TrEntries(tLog)
        IN  /\ Len(es) = 3
            /\ Cardinality(Unresolved(es)) = 1
            /\ Cardinality(NullOrSelf(es)) = 1
            /\ Len(tResults[n].tree) = 2

\* C25: an entry whose parent id is null or its own id is a root; otherwise
\* an entry whose parent id is the id of an entry, wherever it stands, is a
\* child of that entry's node and of no other; otherwise it is a root. Roots
\* and children are in file order.
C25_Linking ==
    \A n \in DOMAIN tResults :
        LET r == tResults[n]
            es == TrEntries(tLog)
            node(i) == r.first - 1 + i
        IN  /\ \A i \in DOMAIN es :
                   IF i \in NullOrSelf(es) \/ i \in Unresolved(es)
                   THEN IsRootNode(r, node(i))
                   ELSE \E j \in DOMAIN es :
                           /\ es[j].id = es[i].parentId
                           /\ IsChildOf(r, node(i), node(j))
            /\ StrictlyIncreasing(r.tree)
            /\ \A a \in NodesOf(r) : StrictlyIncreasing(tHeap[a].children)

\* C25 witness: a node with two children, the first of which stands before
\* it in the file
C25_Witness ==
    \E n \in DOMAIN tResults : \E a \in NodesOf(tResults[n]) :
        /\ Len(tHeap[a].children) = 2
        /\ tHeap[a].children[1] < a

\* C26: when the log has entries, exactly one node of the build is flagged
\* current: the node of the last entry, which is in the result, and the
\* returned current id is that entry's id; when it has none, no node is
\* flagged and no current id is returned.
C26_CurrentNode ==
    \A n \in DOMAIN tResults :
        LET r == tResults[n]
            es == TrEntries(tLog)
            flagged == {a \in NodesOf(r) : tHeap[a].isCurrent}
        IN  IF es # <<>>
            THEN /\ flagged = {r.last}
                 /\ r.last \in Reach(r)
                 /\ tHeap[r.last].id = es[Len(es)].id
                 /\ r.currentId = es[Len(es)].id
            ELSE /\ flagged = {}
                 /\ r.currentId = Absent

\* C26 witness: a build of a log with two entries whose last line is not an
\* entry
C26_Witness ==
    \E n \in DOMAIN tResults :
        /\ Len(TrEntries(tLog)) = 2
        /\ tLog[Len(tLog)].type = "label"
        /\ tResults[n].currentId \in TreeIds
        /\ \E a \in NodesOf(tResults[n]) : tHeap[a].parentId \in LabelIds

\* C27: two builds of the same log return the same ids, shape, order,
\* labels, flags and current id, share no node, and leave the log as it was.
C27_BuildsAgree ==
    /\ [](\A m, n \in DOMAIN tResults :
            m # n =>
                /\ Shape(tResults[m]) = Shape(tResults[n])
                /\ NodesOf(tResults[m]) \cap NodesOf(tResults[n]) = {}
                /\ Reach(tResults[m]) \cap Reach(tResults[n]) = {})
    /\ [][tLog' = tLog]_vars

\* C27 witness: two builds of a log of three entries, one a child of another
C27_Witness ==
    /\ Len(tResults) = 2
    /\ Len(TrEntries(tLog)) = 3
    /\ \E a \in NodesOf(tResults[2]) : tHeap[a].children # <<>>

\* C28: the 'close' event of a Bridge whose start call has not returned yet
\* (the launch failed or the worker exited within the grace interval) sends
\* no disconnected notification, and the failed start call is reported to
\* the open channel as one error.
C28_StartFailureIsErrorOnly ==
    [][\A b \in DOMAIN bridges :
          /\ (CloseHandled(b) /\ bridges[b].awaiting)
                => \A k \in DOMAIN sent' : sent'[k].msg.type # "disconnected"
          /\ (StartAwaited(b) /\ bridges[b].exitCode # "null"
                              /\ chan[bridges[b].owner].ws = "open")
                => sent' = <<[to |-> bridges[b].owner, msg |-> SpawnFailed]>>]_vars

\* what a message text says: per key, the value written last for it
Content(text) ==
    {text.members[i] : i \in {j \in DOMAIN text.members :
                                \A k \in DOMAIN text.members :
                                    text.members[k][1] = text.members[j][1] => k <= j}}
TypeIn(text) == (CHOOSE m \in Content(text) : m[1] = "type")[2]

\* C29: a handler called with a message other than connect on a channel
\* whose Bridge is active
\* writes nothing that says what the message says when its type is
\* list_sessions, get_session_tree or delete_session, and otherwise makes
\* exactly one write, to the channel's worker, that says what the message
\* says; no other step writes to a worker.
C29_Routing ==
    [][/\ \A c \in Channels :
            (handled'.ch = c /\ handled'.text # NoText /\ SessionActive(c))
               => IF TypeIn(handled'.text) \in LocalCommands \cup {"get_session_tree"}
                  THEN \A k \in DOMAIN wrote' :
                          Content(wrote'[k].msg) # Content(handled'.text)
                  ELSE /\ Len(wrote') = 1
                       /\ wrote'[1].to = chan[c].session
                       /\ Content(wrote'[1].msg) = Content(handled'.text)
       /\ wrote' # <<>> => handled'.text # NoText]_vars

\* C29 witness: a prompt received with white space between its tokens has
\* just been written to the worker of the channel
C29_Witness ==
    \E c \in Channels :
        /\ handled.ch = c
        /\ handled.text = MessageText(TRUE, <<<<"type", "prompt">>, <<"id", "i1">>>>)
        /\ wrote = <<SendLine(chan[c].session,
                               MessageText(FALSE, <<<<"type", "prompt">>, <<"id", "i1">>>>))>>

\* PiSession.isActive of a Bridge that may never have been started
BridgeActive(b) == b # Unstarted /\ IsActive(bridges[b])

\* C30: send(text) on a Bridge that is not active raises "Pi process is not
\* running" and writes nothing; on an active Bridge it raises nothing and
\* writes, in the same step, text followed by one newline to that Bridge's
\* worker and nothing else.
C30_SendOnlyWhenActive ==
    [][call' # NoCall =>
          IF BridgeActive(call'.on)
          THEN /\ call'.threw = NoError
               /\ wrote' = <<[to |-> call'.on, msg |-> call'.text, eol |-> 1]>>
          ELSE /\ call'.threw = "Pi process is not running"
               /\ wrote' = <<>>]_vars

\* C30 witness: send has just raised on a Bridge whose worker exited and
\* whose 'close' event is still to come
C30_Witness ==
    /\ call.on # Unstarted
    /\ call.threw # NoError
    /\ ~bridges[call.on].alive
    /\ ~bridges[call.on].closeEmitted
    /\ ~bridges[call.on].closed

\* C30 second witness: send has just written a line to a running worker
C30_WitnessWritten ==
    /\ call.on # Unstarted
    /\ wrote = <<SendLine(call.on, call.text)>>

\* the values of the valid lines among the newline-terminated lines of a stream
ValidValues(stream) ==
    LET valid == SelectSeq(LinesOf(stream), LAMBDA l : JsonValid(l))
    IN  [i \in DOMAIN valid |-> JsonParse(valid[i])]

\* C31: whatever the worker has written so far, the Bridge has dispatched
\* exactly the values of the valid newline-terminated lines, in order: a line
\* that is not valid JSON is dropped and changes neither what is dispatched
\* before and after it nor what the buffer holds, which is the output after
\* the last newline.
C31_InvalidLineDropped ==
    LET arrived == SubSeq(fInput, 1, fPos) IN
    /\ fDelivered = ValidValues(arrived)
    /\ fBuffer = SplitLines(arrived)[Len(SplitLines(arrived))]

\* C31 witness: a line that is not JSON has arrived, and after it a valid
\* line, which has been dispatched
C31_Witness ==
    /\ fPos = Len(fInput)
    /\ Len(LinesOf(fInput)) = 2
    /\ Trim(LinesOf(fInput)[1]) # <<>>
    /\ ~JsonValid(LinesOf(fInput)[1])
    /\ JsonValid(LinesOf(fInput)[2])
    /\ Len(fDelivered) = 1

\* the error callback of Bridge b runs in this step
ErrorHandled(b) == bridges[b].errPending /\ ~bridges'[b].errPending

\* C32: a step in which a Bridge's error callback runs, or in which the
\* channel's message handler receives data that is not JSON, reports one
\* error to the channel if it is open and leaves the set of channels, every
\* channel's socket state, working directory and Bridge reference, and every
\* Bridge's activity as they were, so that what later messages meet is what
\* they would have met without it.
C32_ErrorsKeepChannel ==
    [][\A c \in Channels :
          (\/ handled'.type = "unparsable" /\ handled'.ch = c
           \/ \E b \in DOMAIN bridges : bridges[b].owner = c /\ ErrorHandled(b))
             => /\ chan' = chan
                /\ clients' = clients
                /\ DOMAIN bridges' = DOMAIN bridges
                /\ \A b \in DOMAIN bridges :
                      /\ IsActive(bridges'[b]) = IsActive(bridges[b])
                      /\ StdinWritable(bridges'[b]) = StdinWritable(bridges[b])
                /\ wrote' = <<>>
                /\ chan[c].ws = "open" =>
                      /\ Len(sent') = 1
                      /\ sent'[1].to = c
                      /\ sent'[1].msg.type = "error"]_vars

\* C32 witness: data that is not JSON has just been answered with an error
\* on a channel that references an active Bridge
C32_Witness ==
    \E c \in Channels :
        /\ handled = Inbound("unparsable", c)
        /\ SessionActive(c)
        /\ sent = <<[to |-> c, msg |-> SyntaxError]>>

\* C32 witness: a Bridge's error callback has just reported an error to its
\* open channel
C32_WitnessError ==
    \E c \in Channels :
        /\ chan[c].ws = "open"
        /\ sent = <<[to |-> c, msg |-> SpawnError]>>

\* line i of the log is a label record whose target id is id
LabelsAt(i, id) == tLog[i].type = "label" /\ tLog[i].targetId = id

\* C33: the nodes a build allocates are, in order, the records of the log
\* that are neither the header nor a label record, so those never produce a
\* node; a node's label is absent when no label record targets its id, and
\* otherwise is the name of the label record targeting its id after which no
\* other label record targets it, wherever the target record stands.
C33_Labels ==
    \A r \in DOMAIN tResults :
        LET res == tResults[r]
            kept == Positions([i \in DOMAIN tLog |-> tLog[i].type = "message"], 1)
        IN  /\ res.last - res.first + 1 = Len(kept)
            /\ \A k \in DOMAIN kept :
                  LET node == tHeap[res.first + k - 1]
                      id == tLog[kept[k]].id
                  IN  /\ node.id = id
                      /\ (\A i \in DOMAIN tLog : ~LabelsAt(i, id)) => node.label = Absent
                      /\ \A i \in DOMAIN tLog :
                            (LabelsAt(i, id) /\ \A j \in DOMAIN tLog : j > i => ~LabelsAt(j, id))
                               => node.label = tLog[i].labelName

\* C33 witness: a build of a log in which one label record stands before its
\* target and another, with another name, after it; the node bears the
\* latter's name
C33_Witness ==
    /\ Len(tLog) = 3
    /\ tLog[2].type = "message"
    /\ LabelsAt(1, tLog[2].id) /\ LabelsAt(3, tLog[2].id)
    /\ tLog[1].labelName # tLog[3].labelName
    /\ tResults # <<>>
    /\ tHeap[1].label = tLog[3].labelName

\* the log without its blank lines and without the lines that fail to parse
WithoutSkipped(log) == SelectSeq(log, LAMBDA l : ~LineBlank(l) /\ ~ParseThrows(l))

\* C34: every build of a log returns, and what it returns and the nodes it
\* allocates are what a build of the same log without its blank lines and
\* without its lines that fail to parse returns and allocates.
C34_SkippedLines ==
    \A r \in DOMAIN tResults :
        LET res == tResults[r]
            base == res.first - 1
            clean == WithoutSkipped(tLog)
        IN  /\ res = GetSessionTree(clean, base)
            /\ SubSeq(tHeap, res.first, res.last) = TrNodes(clean, base)

\* C34 witness: a build of a log with an entry, then a line that fails to
\* parse, then another entry, has returned and allocated two nodes
C34_Witness ==
    /\ Len(tLog) = 3
    /\ tLog[1].type = "message"
    /\ ParseThrows(tLog[2])
    /\ tLog[3].type = "message"
    /\ tResults # <<>>
    /\ Len(tHeap) >= 2

\* command id has been issued at some time: it has a type
Issued(id) == cType[id] # "none"

\* C35: a step that issues a command gives it an id no command of this
\* client was ever given, whatever disconnects and reconnects lie between;
\* and a step that handles a response leaves pending, with its timer and
\* its outcome as they were, every command but the one whose id the
\* response bears.
C35_IdsDistinct ==
    [][/\ \A id \in CmdIds :
            (id \in cPending' /\ id \notin cPending)
               => ~Issued(id) /\ cOutcome[id] = <<>> /\ id \notin cTimers
       /\ \A id \in MsgIds :
            \/ \A j \in CmdIds \ {id} :
                  /\ (j \in cPending') = (j \in cPending)
                  /\ (j \in cTimers') = (j \in cTimers)
                  /\ cOutcome'[j] = cOutcome[j]
            \/ \A k \in DOMAIN cSock : ~ClMessage(k, "response", id)]_vars

\* C35 witness: the first command was rejected by a disconnect; after the
\* reconnect two more were issued, of which the later has been resolved by
\* its response while the earlier is still pending
C35_Witness ==
    /\ cOutcome[1] = <<"disconnected">>
    /\ cWs = 2
    /\ 2 \in cPending /\ 2 \in cTimers /\ cOutcome[2] = <<>>
    /\ cOutcome[3] = <<"resolved">>

\* how often the listener fn was called in this step
TimesCalled(fn) == Cardinality({i \in DOMAIN sGot : sGot[i] = fn})

C37_CloseClearsOwnReference ==
    [][\A b \in DOMAIN bridges :
          (CloseHandled(b) /\ ~bridges[b].closed
                           /\ chan[bridges[b].owner].session # NoSession)
             => chan[bridges[b].owner].session = b]_vars

\* C38: the 'close' event of a Bridge is handled at most once; when close()
\* had been called on the Bridge before, handling it sends nothing and leaves
\* every channel's Bridge reference as it was; and a disconnected
\* notification is sent only in the step that handles the 'close' event of
\* a Bridge on which close() had not been called.
C38_CloseCallbackOnce ==
    [][/\ \A b \in DOMAIN bridges :
            /\ bridges[b].closeEmitted => bridges'[b].closeEmitted
            /\ (CloseHandled(b) /\ bridges[b].closed) => sent' = <<>> /\ chan' = chan
       /\ (\E k \in DOMAIN sent' : sent'[k].msg.type = "disconnected")
            => \E b \in DOMAIN bridges : CloseHandled(b) /\ ~bridges[b].closed]_vars

\* C38 witness: the channel was closed by the remote end, which closed the
\* Bridge it referenced; the worker's 'close' event has been handled since,
\* in silence, and the reference is still there
C38_Witness ==
    \E c \in Channels :
        /\ chan[c].ws = "closed"
        /\ chan[c].session # NoSession
        /\ bridges[chan[c].session].closed
        /\ bridges[chan[c].session].closeEmitted
        /\ sent = <<>>

\* C39: at every moment the status is connected exactly when the client's
\* current socket is open.
C39_StatusMatchesSocket == (cStatus = "connected") <=> WsOpen

\* C40: whether the worker runs, the Bridge was closed or the worker has
\* exited, the buffer holds the output that arrived after the last newline,
\* none of which was dispatched: there are as many dispatched messages as
\* there are valid lines among the lines a newline ended, each message is
\* the value of one such line, and that line is not blank.
C40_OnlyCompleteLines ==
    LET arrived == SubSeq(fInput, 1, fPos)
        pieces == SplitLines(arrived)
        complete == LinesOf(arrived)
    IN  /\ fBuffer = pieces[Len(pieces)]
        /\ Len(fDelivered) = Cardinality({i \in DOMAIN complete : JsonValid(complete[i])})
        /\ \A k \in DOMAIN fDelivered :
              \E i \in DOMAIN complete :
                  /\ Trim(complete[i]) # <<>>
                  /\ fDelivered[k] = JsonParse(complete[i])

\* C40 witness: the worker has exited after a complete line, which was
\* dispatched, and a valid value without a newline, which is in the buffer
C40_Witness ==
    /\ fState = "exited"
    /\ fPos = Len(fInput)
    /\ Len(fDelivered) = 1
    /\ fBuffer # <<>>
    /\ JsonValid(fBuffer)

====
